---- MODULE Spec2Model ----
(***************************************************************************)
(* Model of crates/freeze/src/datasets/four_byte_counts.rs: the parser of  *)
(* encoded trace keys (parse_signature_size), the aggregation of a trace   *)
(* response into the FourByteCounts columns (process_storage_reads) and    *)
(* the two extraction drivers (CollectByBlock / CollectByTransaction).     *)
(*                                                                         *)
(* A string is a sequence of one-character strings; a byte is 0..255; an   *)
(* Option is <<>> (None) or <<v>> (Some(v)); a u64 produced by parsing is  *)
(* three base-10^9 limbs <<hi, mid, lo>> so that the u64 range check is    *)
(* exact although TLC's integers are 32 bits wide.                         *)
(***************************************************************************)
EXTENDS Integers, Sequences, FiniteSets, TLC

VARIABLES
    schemas,    \* the schema registry's entry for FourByteCounts
    columns,    \* the FourByteCounts table
    response,   \* the BlockTxsTraces handed to process_storage_reads
    result,     \* what the last call returned (or that it panicked)
    before,     \* the table as it was when process_storage_reads was entered
    pc,         \* position of the request
    fetches,    \* fetch calls issued by the current extract call
    inflight,   \* the fetch call awaiting its reply
    key,        \* parse_signature_size's argument
    parsed      \* parse_signature_size's result

vars == <<schemas, columns, response, result, before, pc, fetches, inflight, key, parsed>>

(***************************************************************************)
(* Bounds                                                                  *)
(***************************************************************************)
\* longest generated key body (a "0x" prefix may be put in front of it)
MaxLen == 4
\* longest per_transaction_hashes / per_transaction_counters
MaxTxs == 2

(***************************************************************************)
(* Characters and strings                                                  *)
(***************************************************************************)
Digits == <<"0", "1", "2", "3", "4", "5", "6", "7", "8", "9">>
Lower == <<"a", "b", "c", "d", "e", "f", "g", "h", "i", "j", "k", "l", "m",
           "n", "o", "p", "q", "r", "s", "t", "u", "v", "w", "x", "y", "z">>
Upper == <<"A", "B", "C", "D", "E", "F">>

PosIn(tbl, c) == CHOOSE i \in 1..Len(tbl) : tbl[i] = c

InTable(tbl, c) == \E i \in 1..Len(tbl) : tbl[i] = c

Range(tbl) == {tbl[i] : i \in 1..Len(tbl)}

\* the bytes of the ASCII characters in use
CharCode ==
    [c \in Range(Digits) \cup Range(Lower) \cup Range(Upper) \cup {"(", ")", "+", ",", "-"} |->
        IF InTable(Digits, c) THEN 47 + PosIn(Digits, c)
        ELSE IF InTable(Lower, c) THEN 96 + PosIn(Lower, c)
        ELSE IF InTable(Upper, c) THEN 64 + PosIn(Upper, c)
        ELSE CASE c = "(" -> 40
               [] c = ")" -> 41
               [] c = "+" -> 43
               [] c = "," -> 44
               [] c = "-" -> 45]

Ord(c) == CharCode[c]

\* str::contains(char)
Contains(s, c) == \E i \in 1..Len(s) : s[i] = c

\* Ord for String: byte-wise lexicographic, a proper prefix first
RECURSIVE StrLess(_, _)
StrLess(s, t) ==
    IF Len(t) = 0 THEN FALSE
    ELSE IF Len(s) = 0 THEN TRUE
    ELSE IF Ord(Head(s)) # Ord(Head(t)) THEN Ord(Head(s)) < Ord(Head(t))
    ELSE StrLess(Tail(s), Tail(t))

(***************************************************************************)
(* Results                                                                 *)
(***************************************************************************)
OkParse(bytes, size) == [tag |-> "Ok", bytes |-> bytes, size |-> size, msg |-> ""]
ErrParse(msg) == [tag |-> "Err", bytes |-> <<>>, size |-> <<>>, msg |-> msg]
PanicParse == [tag |-> "Panic", bytes |-> <<>>, size |-> <<>>, msg |-> "byte index out of range"]

(***************************************************************************)
(* Integer parsing of the standard library                                 *)
(***************************************************************************)
HexDigitValues ==
    [c \in Range(Digits) \cup Range(SubSeq(Lower, 1, 6)) \cup Range(Upper) |->
        IF InTable(Digits, c) THEN PosIn(Digits, c) - 1
        ELSE IF InTable(Lower, c) THEN 9 + PosIn(Lower, c)
        ELSE 9 + PosIn(Upper, c)]

DecDigitValues == [c \in Range(Digits) |-> PosIn(Digits, c) - 1]

\* char::to_digit(16): -1 stands for None
HexVal(c) == IF c \in DOMAIN HexDigitValues THEN HexDigitValues[c] ELSE -1

\* char::to_digit(10)
DecVal(c) == IF c \in DOMAIN DecDigitValues THEN DecDigitValues[c] ELSE -1

RECURSIVE U8Digits(_, _)
U8Digits(ds, acc) ==
    IF Len(ds) = 0 THEN acc
    ELSE IF HexVal(Head(ds)) < 0 THEN -1
    ELSE IF acc * 16 + HexVal(Head(ds)) > 255 THEN -1
    ELSE U8Digits(Tail(ds), acc * 16 + HexVal(Head(ds)))

\* u8::from_str_radix(src, 16): the byte, or -1 for Err(ParseIntError)
U8FromStrRadix16(src) ==
    IF Len(src) = 0 THEN -1
    ELSE IF Head(src) \in {"+", "-"} /\ Len(src) = 1 THEN -1
    ELSE IF Head(src) = "+" THEN U8Digits(Tail(src), 0)
    ELSE U8Digits(src, 0)

U64Max == <<18, 446744073, 709551615>>

U64Over(v) ==
    \/ v[1] > U64Max[1]
    \/ v[1] = U64Max[1] /\ v[2] > U64Max[2]
    \/ v[1] = U64Max[1] /\ v[2] = U64Max[2] /\ v[3] > U64Max[3]

\* v * 10 + d on the limbs; hi is left unreduced for the range check
MulAdd10(v, d) ==
    LET top == 100000000
    IN  <<v[1] * 10 + v[2] \div top,
          (v[2] % top) * 10 + v[3] \div top,
          (v[3] % top) * 10 + d>>

\* checked_mul(10) then checked_add(digit), digit by digit; <<>> for Err
RECURSIVE U64Digits(_, _)
U64Digits(ds, acc) ==
    IF Len(ds) = 0 THEN acc
    ELSE IF DecVal(Head(ds)) < 0 THEN <<>>
    ELSE IF U64Over(MulAdd10(acc, DecVal(Head(ds)))) THEN <<>>
    ELSE U64Digits(Tail(ds), MulAdd10(acc, DecVal(Head(ds))))

\* str::parse::<u64>(): the value as limbs, or <<>> for Err(ParseIntError)
ParseU64(src) ==
    IF Len(src) = 0 THEN <<>>
    ELSE IF Head(src) \in {"+", "-"} /\ Len(src) = 1 THEN <<>>
    ELSE IF Head(src) = "+" THEN U64Digits(Tail(src), <<0, 0, 0>>)
    ELSE U64Digits(src, <<0, 0, 0>>)

(***************************************************************************)
(* parse_signature_size                                                    *)
(***************************************************************************)
RECURSIVE SumMix(_, _, _)
SumMix(s, i, j) ==
    IF i > Len(s) THEN 0
    ELSE ((Ord(s[i]) + j) * (i + j) + SumMix(s, i + 1, j)) % 65536

\* ethers_core::utils::keccak256: an external 32-byte digest.  Only its being
\* a function of the whole input with a 32-byte value is used; the digest
\* itself is a stand-in.
Keccak256(s) == [j \in 1..32 |-> (SumMix(s, 1, j) + Len(s) * j) % 256]

function_signature_to_selector(signature) ==
    LET hash == Keccak256(signature)
    IN  <<hash[1], hash[2], hash[3], hash[4]>>

\* str::splitn(2, '-').collect()
SplitN2(s) ==
    IF ~Contains(s, "-") THEN <<s>>
    ELSE LET i == CHOOSE k \in 1..Len(s) :
                      s[k] = "-" /\ \A m \in 1..(k - 1) : s[m] # "-"
         IN  <<SubSeq(s, 1, i - 1), SubSeq(s, i + 1, Len(s))>>

\* parse_signature_size without its prefix stripping
TrimNothing(s) == s

\* str::trim_start_matches("0x"): every leading repetition is removed
RECURSIVE TrimStart0x(_)
TrimStart0x(s) ==
    IF Len(s) >= 2 /\ s[1] = "0" /\ s[2] = "x"
    THEN TrimStart0x(SubSeq(s, 3, Len(s)))
    ELSE s

\* (0..len).step_by(2).map(|i| u8::from_str_radix(&hex_part[i..i + 2], 16))
\*     .collect::<Result<Vec<u8>, _>>()
\* evaluated lazily from the left: the first Err ends it, and a slice that
\* runs past the end of hex_part panics.  i is 1-based here.
RECURSIVE DecodePairs(_, _, _)
DecodePairs(hex_part, i, acc) ==
    IF i > Len(hex_part) THEN [tag |-> "Ok", bytes |-> acc]
    ELSE IF i + 1 > Len(hex_part) THEN [tag |-> "Panic", bytes |-> <<>>]
    ELSE LET b == U8FromStrRadix16(<<hex_part[i], hex_part[i + 1]>>)
         IN  IF b < 0 THEN [tag |-> "Err", bytes |-> <<>>]
             ELSE DecodePairs(hex_part, i + 2, Append(acc, b))

parse_signature_size(signature_size) ==
    IF Contains(signature_size, "(")
    THEN OkParse(function_signature_to_selector(signature_size), <<0, 0, 0>>)
    ELSE LET parts == SplitN2(signature_size)
         IN  IF Len(parts) # 2
             THEN ErrParse("could not parse 4byte-size pair")
             ELSE LET hex_part == TrimStart0x(parts[1])
                      bytes == DecodePairs(hex_part, 1, <<>>)
                      number == ParseU64(parts[2])
                  IN  IF bytes.tag = "Panic" THEN PanicParse
                      ELSE IF bytes.tag = "Err"
                      THEN ErrParse("could not parse signature bytes")
                      ELSE IF number = <<>>
                      THEN ErrParse("could not parse call data size")
                      ELSE OkParse(bytes.bytes, number)

(***************************************************************************)
(* Keys given to the parser                                                *)
(***************************************************************************)
Alphabet == {"0", "x", "a", "B", "g", "+", "-", "(", "7"}

RECURSIVE StringsOfLen(_)
StringsOfLen(n) ==
    IF n = 0 THEN {<<>>}
    ELSE {Append(s, c) : s \in StringsOfLen(n - 1), c \in Alphabet}

ShortStrings == UNION {StringsOfLen(n) : n \in 0..MaxLen}

\* the keys of the unit tests and keys at the ends of the u64 range
TestKeys ==
    { <<"t","r","a","n","s","f","e","r","(","a","d","d","r","e","s","s",",",
        "u","i","n","t","2","5","6",")">>,
      <<"a","9","0","5","9","c","b","b","-","6","4">>,
      <<"0","x","a","9","0","5","9","c","b","b","-","6","4">> ,
      <<"i","n","v","a","l","i","d","-","i","n","p","u","t">>,
      <<"a","b","-","1","8","4","4","6","7","4","4","0","7","3","7","0","9","5","5","1","6","1","5">>,
      <<"a","b","-","1","8","4","4","6","7","4","4","0","7","3","7","0","9","5","5","1","6","1","6">>,
      <<"a","b","-","0","0","1","8","4","4","6","7","4","4","0","7","3","7","0","9","5","5","1","6","1","5">>,
      <<"a","b","-","9","9","9","9","9","9","9","9","9","9","9","9","9","9","9","9","9","9","9","9">> }

ParseKeys ==
    ShortStrings \cup {<<"0", "x">> \o s : s \in ShortStrings} \cup TestKeys

(***************************************************************************)
(* The table, the schema and the trace response                            *)
(***************************************************************************)
\* FourByteCounts::default()
EmptyTable ==
    [n_rows |-> 0, block_number |-> <<>>, transaction_index |-> <<>>,
     transaction_hash |-> <<>>, signature |-> <<>>, size |-> <<>>,
     count |-> <<>>, chain_id |-> <<>>]

NoResponse == <<<<>>, <<>>, <<>>>>
NoResult == [tag |-> "None", msg |-> ""]
NoFetch == [kind |-> "none", flag |-> FALSE]
NotParsed == [tag |-> "None", bytes |-> <<>>, size |-> <<>>, msg |-> ""]

\* Schema::has_column
has_column(schema, name) == name \in schema

\* store!(schema, columns, col_name, value)
store(schema, cols, name, value) ==
    IF has_column(schema, name)
    THEN [cols EXCEPT ![name] = Append(@, value)]
    ELSE cols

\* BTreeMap<String, u64>::iter(): the entries in ascending key order
RECURSIVE SortedKeys(_)
SortedKeys(ks) ==
    IF ks = {} THEN <<>>
    ELSE LET first == CHOOSE k \in ks : \A o \in ks \ {k} : StrLess(k, o)
         IN  <<first>> \o SortedKeys(ks \ {first})

RECURSIVE SortedKeysDescending(_)
SortedKeysDescending(ks) ==
    IF ks = {} THEN <<>>
    ELSE LET last == CHOOSE k \in ks : \A o \in ks \ {k} : StrLess(o, k)
         IN  <<last>> \o SortedKeysDescending(ks \ {last})

\* a map iterated from its greatest key down
BTreeIterDescending(trace) == SortedKeysDescending(DOMAIN trace)

BTreeIter(trace) == SortedKeys(DOMAIN trace)

\* the row with transaction_hash pushed without asking the schema
EmitRowPushHash(schema, cols, block_number, index, tx, signature, size, count) ==
    LET c0 == [cols EXCEPT !.n_rows = @ + 1]
        c1 == store(schema, c0, "block_number", block_number)
        c2 == store(schema, c1, "transaction_index", <<index>>)
        c3 == [c2 EXCEPT !.transaction_hash = Append(@, tx)]
        c4 == store(schema, c3, "signature", signature)
        c5 == store(schema, c4, "size", size)
    IN  store(schema, c5, "count", count)

\* the row with signature pushed without asking the schema
EmitRowPushSignature(schema, cols, block_number, index, tx, signature, size, count) ==
    LET c0 == [cols EXCEPT !.n_rows = @ + 1]
        c1 == store(schema, c0, "block_number", block_number)
        c2 == store(schema, c1, "transaction_index", <<index>>)
        c3 == store(schema, c2, "transaction_hash", tx)
        c4 == [c3 EXCEPT !.signature = Append(@, signature)]
        c5 == store(schema, c4, "size", size)
    IN  store(schema, c5, "count", count)

\* the row of one parsed entry: n_rows, then the six stores
EmitRow(schema, cols, block_number, index, tx, signature, size, count) ==
    LET c0 == [cols EXCEPT !.n_rows = @ + 1]
        c1 == store(schema, c0, "block_number", block_number)
        c2 == store(schema, c1, "transaction_index", <<index>>)
        c3 == store(schema, c2, "transaction_hash", tx)
        c4 == store(schema, c3, "signature", signature)
        c5 == store(schema, c4, "size", size)
    IN  store(schema, c5, "count", count)

\* the inner loop with n_rows counted before the key is parsed
RECURSIVE ProcessTraceCountFirst(_, _, _, _, _, _, _, _)
ProcessTraceCountFirst(schema, cols, block_number, index, tx, trace, keys, k) ==
    IF k > Len(keys) THEN [columns |-> cols, result |-> [tag |-> "Ok", msg |-> ""]]
    ELSE LET p == parse_signature_size(keys[k])
             counted == [cols EXCEPT !.n_rows = @ + 1]
             row == [EmitRow(schema, cols, block_number, index, tx,
                             p.bytes, p.size, trace[keys[k]]) EXCEPT !.n_rows = cols.n_rows + 1]
         IN  IF p.tag # "Ok"
             THEN [columns |-> counted, result |-> [tag |-> p.tag, msg |-> p.msg]]
             ELSE ProcessTraceCountFirst(schema, row, block_number, index, tx,
                                         trace, keys, k + 1)

\* the inner loop over one transaction's entries, from entry k
RECURSIVE ProcessTrace(_, _, _, _, _, _, _, _)
ProcessTrace(schema, cols, block_number, index, tx, trace, keys, k) ==
    IF k > Len(keys) THEN [columns |-> cols, result |-> [tag |-> "Ok", msg |-> ""]]
    ELSE LET p == parse_signature_size(keys[k])
         IN  IF p.tag # "Ok"
             THEN [columns |-> cols, result |-> [tag |-> p.tag, msg |-> p.msg]]
             ELSE ProcessTrace(schema,
                               EmitRow(schema, cols, block_number, index, tx,
                                       p.bytes, p.size, trace[keys[k]]),
                               block_number, index, tx, trace, keys, k + 1)

\* traces.iter().zip(txs): as many pairs as the shorter of the two
ZipLen(traces, txs) == IF Len(traces) < Len(txs) THEN Len(traces) ELSE Len(txs)

\* the outer loop, from pair i (1-based; index = i - 1)
RECURSIVE ProcessPairs(_, _, _, _, _, _)
ProcessPairs(schema, cols, block_number, txs, traces, i) ==
    IF i > ZipLen(traces, txs)
    THEN [columns |-> cols, result |-> [tag |-> "Ok", msg |-> ""]]
    ELSE LET r == ProcessTrace(schema, cols, block_number, i - 1, txs[i],
                               traces[i], BTreeIter(traces[i]), 1)
         IN  IF r.result.tag # "Ok" THEN r
             ELSE ProcessPairs(schema, r.columns, block_number, txs, traces, i + 1)

process_storage_reads(resp, cols, registry) ==
    IF registry = <<>>
    THEN [columns |-> cols, result |-> [tag |-> "Err", msg |-> "schema not provided"]]
    ELSE ProcessPairs(registry[1], cols, resp[1], resp[2], resp[3], 1)

(***************************************************************************)
(* Inputs: schemas and trace responses                                     *)
(***************************************************************************)
ColumnNames ==
    {"block_number", "transaction_index", "transaction_hash",
     "signature", "size", "count"}

\* no schema registered, or one of: every column, no column, every column but
\* transaction_hash, the three per-transaction columns, the three parsed ones
SchemaChoices ==
    { <<>>,
      <<ColumnNames>>,
      <<{}>>,
      <<ColumnNames \ {"transaction_hash"}>>,
      <<{"block_number", "transaction_index", "transaction_hash"}>>,
      <<{"signature", "size", "count"}>> }

BlockNumbers == {<<>>, <<17>>}

TxHashes == {<<>>, <<<<171, 205>>>>}

\* entries whose key parse_signature_size returns from: a selector-size
\* pair, a pair whose hex part is not hex, a full signature
ReturningEntries ==
    { <<<<"a", "b", "-", "1">>, 2>>,
      <<<<"b", "g", "-", "1">>, 1>>,
      <<<<"f", "(">>, 3>> }

\* an entry whose key has a hex part of odd length
OddEntry == <<<<"c", "-", "1">>, 1>>

MapOf(es) == [k \in {e[1] : e \in es} |-> (CHOOSE e \in es : e[1] = k)[2]]

CounterMaps == {MapOf(es) : es \in SUBSET ReturningEntries} \cup {MapOf({OddEntry})}

SeqsUpTo(S, n) == UNION {[1..m -> S] : m \in 0..n}

Responses ==
    { <<b, txs, traces>> :
        b \in BlockNumbers, txs \in SeqsUpTo(TxHashes, MaxTxs),
        traces \in SeqsUpTo(CounterMaps, MaxTxs) }

\* the tables a call may find: the fresh one, or one that holds the row an
\* earlier response left under the same schema
StartTables(registry) ==
    IF registry = <<>> THEN {EmptyTable}
    ELSE {EmptyTable,
          EmitRow(registry[1], EmptyTable, <<16>>, 0, <<>>, <<171>>, <<0, 0, 1>>, 5)}

(***************************************************************************)
(* process_storage_reads called on a table                                 *)
(***************************************************************************)
Init ==
    /\ schemas \in SchemaChoices
    /\ columns \in StartTables(schemas)
    /\ response = NoResponse
    /\ result = NoResult
    /\ before = columns
    /\ pc = "call"
    /\ fetches = 0
    /\ inflight = NoFetch
    /\ key = <<>>
    /\ parsed = NotParsed

ProcessStorageReads ==
    /\ pc = "call"
    /\ \E r \in Responses :
          LET out == process_storage_reads(r, columns, schemas)
          IN  /\ response' = r
              /\ before' = columns
              /\ columns' = out.columns
              /\ result' = out.result
    /\ pc' = "returned"
    /\ UNCHANGED <<schemas, fetches, inflight, key, parsed>>

Next == ProcessStorageReads

Spec == Init /\ [][Next]_vars

(***************************************************************************)
(* Reference values for the aggregation's claims                           *)
(***************************************************************************)
\* the (transaction position, key) entries of a response; position 1 is
\* transaction index 0
Entries(resp) ==
    UNION {{<<i, k>> : k \in DOMAIN resp[3][i]} : i \in 1..Len(resp[3])}

\* ascending transaction index, then ascending lexicographic key
EntryLess(a, b) == a[1] < b[1] \/ (a[1] = b[1] /\ StrLess(a[2], b[2]))

EntryAt(E, r) == CHOOSE e \in E : Cardinality({x \in E : EntryLess(x, e)}) = r - 1

Parses(k) == parse_signature_size(k).tag = "Ok"

AllKeysParse(resp) == \A e \in Entries(resp) : Parses(e[2])

Requested(c) == schemas # <<>> /\ c \in schemas[1]

\* what the row of entry e holds in column c
CellOf(c, e, resp) ==
    CASE c = "block_number" -> resp[1]
      [] c = "transaction_index" -> <<e[1] - 1>>
      [] c = "transaction_hash" -> resp[2][e[1]]
      [] c = "signature" -> parse_signature_size(e[2]).bytes
      [] c = "size" -> parse_signature_size(e[2]).size
      [] c = "count" -> resp[3][e[1]][e[2]]

\* column c of table base after the rows of the entries P, in order
ColumnAfter(c, base, P, resp) ==
    IF Requested(c)
    THEN base[c] \o [r \in 1..Cardinality(P) |-> CellOf(c, EntryAt(P, r), resp)]
    ELSE base[c]

(***************************************************************************)
(* C1: in every state reached by running process_storage_reads, also one   *)
(* left behind by a run that ends in an error, each of block_number,       *)
(* transaction_index, transaction_hash, signature, size and count is       *)
(* n_rows long if the schema requests the column and empty if it does not. *)
(***************************************************************************)
C1_ColumnLengths ==
    \A c \in ColumnNames :
        Len(columns[c]) = IF Requested(c) THEN columns.n_rows ELSE 0

\* a run that ended in an error left rows behind under the schema without
\* transaction_hash
C1_Witness ==
    /\ pc = "returned"
    /\ result.tag = "Err"
    /\ schemas = <<ColumnNames \ {"transaction_hash"}>>
    /\ columns.n_rows > 0
    /\ Len(columns.transaction_hash) = 0
    /\ Len(columns.signature) = columns.n_rows

(***************************************************************************)
(* C2: for a response whose two sequences have the same length and whose   *)
(* keys all parse, under a schema requesting every column and on an empty  *)
(* table, there is exactly one row per (transaction index, key) entry, in  *)
(* ascending index and then ascending lexicographic key order, and row k   *)
(* of every column describes entry k: its index, its transaction's hash,   *)
(* the response's block number and the entry's count.                      *)
(***************************************************************************)
C2_RowsInOrder ==
    ( /\ pc = "returned"
      /\ Len(response[2]) = Len(response[3])
      /\ AllKeysParse(response)
      /\ schemas = <<ColumnNames>>
      /\ before = EmptyTable )
    => /\ result.tag = "Ok"
       /\ columns.n_rows = Cardinality(Entries(response))
       /\ \A c \in ColumnNames : Len(columns[c]) = columns.n_rows
       /\ \A c \in {"block_number", "transaction_index", "transaction_hash", "count"} :
             columns[c] = ColumnAfter(c, EmptyTable, Entries(response), response)

\* two entries in the first transaction and one in the second
C2_Witness ==
    /\ pc = "returned"
    /\ before = EmptyTable
    /\ schemas = <<ColumnNames>>
    /\ AllKeysParse(response)
    /\ columns.transaction_index = <<<<0>>, <<0>>, <<1>>>>
    /\ columns.count = <<2, 3, 2>>
    /\ columns.transaction_hash = <<<<>>, <<>>, <<<<171, 205>>>>>>

(***************************************************************************)
(* C3: if any key of any mapping of per_transaction_counters fails to      *)
(* parse, process_storage_reads returns an error: never Ok, and never a    *)
(* run that goes on past the bad entry.                                    *)
(***************************************************************************)
C3_BadKeyIsError ==
    (pc = "returned" /\ ~AllKeysParse(response)) => result.tag = "Err"

(***************************************************************************)
(* C5: signature, size and count are written for every emitted row         *)
(* whatever the schema: after process_storage_reads each of the three      *)
(* columns is n_rows long even when the schema does not request it.        *)
(***************************************************************************)
C5_AlwaysWritten ==
    pc = "returned" =>
        \A c \in {"signature", "size", "count"} : Len(columns[c]) = columns.n_rows

\* C5 as amended: each of signature, size and count is n_rows long after
\* process_storage_reads when the schema requests it and empty when not.
C5_WrittenWhenRequested ==
    pc = "returned" =>
        \A c \in {"signature", "size", "count"} :
            /\ Requested(c) => Len(columns[c]) = columns.n_rows
            /\ ~Requested(c) => Len(columns[c]) = 0

\* rows were emitted under a schema that requests none of the three
C5_Witness ==
    /\ pc = "returned"
    /\ schemas = <<{"block_number", "transaction_index", "transaction_hash"}>>
    /\ columns.n_rows = 2
    /\ Len(columns.signature) = 0
    /\ Len(columns.transaction_index) = 2

(***************************************************************************)
(* C9: for a response whose keys all parse, every transaction index from 0 *)
(* to len(per_transaction_counters) - 1 is visited: n_rows grows by the    *)
(* number of entries of all the mappings, whatever the length of           *)
(* per_transaction_hashes.                                                 *)
(***************************************************************************)
C9_EveryCounterVisited ==
    (pc = "returned" /\ schemas # <<>> /\ AllKeysParse(response))
        => columns.n_rows = before.n_rows + Cardinality(Entries(response))

(***************************************************************************)
(* C10: when process_storage_reads returns an error because a key fails to *)
(* parse, the table has gained exactly the rows of the entries that come   *)
(* before the first failing key (ascending index, then key) and nothing of *)
(* the failing entry or a later one; when it returns the schema-not-       *)
(* provided error the table is as it was.                                  *)
(***************************************************************************)
C10_PartialRowsKept ==
    (pc = "returned" /\ result.tag = "Err") =>
        IF result.msg = "schema not provided"
        THEN columns = before
        ELSE LET E == Entries(response)
                 F == {e \in E : ~Parses(e[2])}
             IN  /\ F # {}
                 /\ LET first == CHOOSE f \in F : \A g \in F \ {f} : EntryLess(f, g)
                        P == {e \in E : EntryLess(e, first)}
                    IN  /\ columns.n_rows = before.n_rows + Cardinality(P)
                        /\ columns.chain_id = before.chain_id
                        /\ \A c \in ColumnNames :
                              columns[c] = ColumnAfter(c, before, P, response)

\* on a table of one row, an error in the second transaction after a row of
\* the first and a row of the second were stored
C10_Witness ==
    /\ pc = "returned"
    /\ result = [tag |-> "Err", msg |-> "could not parse signature bytes"]
    /\ schemas = <<ColumnNames>>
    /\ before.n_rows = 1
    /\ columns.n_rows = 3
    /\ columns.transaction_index = <<<<0>>, <<0>>, <<1>>>>
    /\ columns.count = <<5, 2, 2>>

(***************************************************************************)
(* The extraction drivers: one request, extract then transform             *)
(***************************************************************************)
InitDriver ==
    /\ schemas \in SchemaChoices
    /\ columns = EmptyTable
    /\ response = NoResponse
    /\ result = NoResult
    /\ before = EmptyTable
    /\ pc = "idle"
    /\ fetches = 0
    /\ inflight = NoFetch
    /\ key = <<>>
    /\ parsed = NotParsed

\* the part of an extract up to its await: the schema lookup, the flag, the
\* request's parameter (which may be missing) and the fetch call
ExtractUpToAwait(kind, flag_column) ==
    /\ pc = "idle"
    /\ IF schemas = <<>>
       THEN /\ result' = [tag |-> "Err", msg |-> "schema not provided"]
            /\ pc' = "extract_failed"
            /\ UNCHANGED <<fetches, inflight>>
       ELSE \E param_ok \in BOOLEAN :
              IF ~param_ok
              THEN /\ result' = [tag |-> "Err", msg |-> "request parameter"]
                   /\ pc' = "extract_failed"
                   /\ UNCHANGED <<fetches, inflight>>
              ELSE /\ inflight' = [kind |-> kind,
                                   flag |-> has_column(schemas[1], flag_column)]
                   /\ fetches' = fetches + 1
                   /\ pc' = "awaiting"
                   /\ UNCHANGED result
    /\ UNCHANGED <<schemas, columns, response, before, key, parsed>>

\* an extract that issues its fetch before it looks the schema up
ExtractFetchFirst(kind) ==
    /\ pc = "idle"
    /\ fetches' = fetches + 1
    /\ IF schemas = <<>>
       THEN /\ result' = [tag |-> "Err", msg |-> "schema not provided"]
            /\ pc' = "extract_failed"
            /\ UNCHANGED inflight
       ELSE /\ inflight' = [kind |-> kind, flag |-> TRUE]
            /\ pc' = "awaiting"
            /\ UNCHANGED result
    /\ UNCHANGED <<schemas, columns, response, before, key, parsed>>

ExtractByBlockFetchFirst == ExtractFetchFirst("block")

\* CollectByBlock::extract
ExtractByBlock == ExtractUpToAwait("block", "transaction_hash")

\* CollectByTransaction::extract
ExtractByTransaction == ExtractUpToAwait("transaction", "block_number")

\* the awaited fetch resolves to a trace response
FetchReply ==
    /\ pc = "awaiting"
    /\ \E r \in Responses : response' = r
    /\ result' = [tag |-> "Ok", msg |-> ""]
    /\ pc' = "extracted"
    /\ UNCHANGED <<schemas, columns, before, fetches, inflight, key, parsed>>

\* the awaited fetch resolves to an error, which extract returns unchanged
FetchError ==
    /\ pc = "awaiting"
    /\ result' = [tag |-> "Err", msg |-> "fetch error"]
    /\ pc' = "extract_failed"
    /\ inflight' = NoFetch
    /\ UNCHANGED <<schemas, columns, response, before, fetches, key, parsed>>

\* transform: the response is moved into process_storage_reads
TransformOf(kind) ==
    /\ pc = "extracted"
    /\ inflight.kind = kind
    /\ LET out == process_storage_reads(response, columns, schemas)
       IN  /\ before' = columns
           /\ columns' = out.columns
           /\ result' = out.result
    /\ response' = NoResponse
    /\ pc' = "transformed"
    /\ inflight' = NoFetch
    /\ UNCHANGED <<schemas, fetches, key, parsed>>

\* CollectByBlock::transform
TransformByBlock == TransformOf("block")

\* CollectByTransaction::transform
TransformByTransaction == TransformOf("transaction")

NextDriver ==
    \/ ExtractByBlock
    \/ ExtractByTransaction
    \/ FetchReply
    \/ FetchError
    \/ TransformByBlock
    \/ TransformByTransaction

SpecDriver == InitDriver /\ [][NextDriver]_vars

(***************************************************************************)
(* C7: in both drivers, with no schema for FourByteCounts in the registry  *)
(* extract fails with the schema-not-provided error and no fetch is ever   *)
(* issued in that run; with a schema, at most one fetch is issued per      *)
(* extract call, and only after the schema lookup succeeded.               *)
(***************************************************************************)
C7_FetchOnlyWithSchema ==
    /\ fetches <= 1
    /\ schemas = <<>> =>
          /\ fetches = 0
          /\ inflight = NoFetch
          /\ pc \in {"idle", "extract_failed"}
          /\ pc = "extract_failed" =>
                result = [tag |-> "Err", msg |-> "schema not provided"]
    /\ (fetches = 1 \/ inflight # NoFetch) => schemas # <<>>
    /\ pc = "awaiting" => (fetches = 1 /\ inflight # NoFetch)

\* an extract has failed for want of a schema
C7_Witness ==
    /\ pc = "extract_failed"
    /\ schemas = <<>>
    /\ result = [tag |-> "Err", msg |-> "schema not provided"]
    /\ fetches = 0

(***************************************************************************)
(* The parser on its own: one key, one call                                *)
(***************************************************************************)
InitParse ==
    /\ key \in ParseKeys
    /\ parsed = NotParsed
    /\ pc = "parse"
    /\ schemas = <<>>
    /\ columns = EmptyTable
    /\ response = NoResponse
    /\ result = NoResult
    /\ before = EmptyTable
    /\ fetches = 0
    /\ inflight = NoFetch

Parse ==
    /\ pc = "parse"
    /\ parsed' = parse_signature_size(key)
    /\ pc' = "parsed"
    /\ UNCHANGED <<schemas, columns, response, result, before, fetches, inflight, key>>

NextParse == Parse

SpecParse == InitParse /\ [][NextParse]_vars

(***************************************************************************)
(* Reference values for the parser's claims, written from the key grammar  *)
(***************************************************************************)
HexChars == <<"0", "1", "2", "3", "4", "5", "6", "7", "8", "9",
              "a", "b", "c", "d", "e", "f">>
HexCharsUpper == <<"0", "1", "2", "3", "4", "5", "6", "7", "8", "9",
                   "A", "B", "C", "D", "E", "F">>

IsHexDigit(c) == InTable(HexChars, c) \/ InTable(HexCharsUpper, c)

RefHexDigit(c) ==
    IF InTable(HexChars, c) THEN PosIn(HexChars, c) - 1
    ELSE PosIn(HexCharsUpper, c) - 1

AllHex(h) == \A i \in 1..Len(h) : IsHexDigit(h[i])

AllDecimal(d) == Len(d) > 0 /\ \A i \in 1..Len(d) : InTable(Digits, d[i])

\* the bytes of h, two digits at a time
RefBytes(h) ==
    [k \in 1..(Len(h) \div 2) |->
        16 * RefHexDigit(h[2 * k - 1]) + RefHexDigit(h[2 * k])]

RECURSIVE StripZeros(_)
StripZeros(d) ==
    IF Len(d) > 1 /\ Head(d) = "0" THEN StripZeros(Tail(d)) ELSE d

U64MaxText ==
    <<"1","8","4","4","6","7","4","4","0","7","3","7","0","9","5","5","1","6","1","5">>

\* d, a decimal numeral, denotes a number of at most 2^64 - 1
InU64Range(d) ==
    LET c == StripZeros(d)
    IN  \/ Len(c) < Len(U64MaxText)
        \/ /\ Len(c) = Len(U64MaxText)
           /\ \/ c = U64MaxText
              \/ \E i \in 1..Len(c) :
                    /\ \A j \in 1..(i - 1) : c[j] = U64MaxText[j]
                    /\ PosIn(Digits, c[i]) < PosIn(Digits, U64MaxText[i])

RECURSIVE NatOf(_)
NatOf(d) ==
    IF Len(d) = 0 THEN 0
    ELSE 10 * NatOf(SubSeq(d, 1, Len(d) - 1)) + (PosIn(Digits, d[Len(d)]) - 1)

\* the number d denotes, as limbs: its last 9 digits, the 9 before, the rest
RefValue(d) ==
    LET c == StripZeros(d)
        n == Len(c)
        part(a, b) == SubSeq(c, IF a < 1 THEN 1 ELSE a, b)
    IN  <<NatOf(part(n - 26, n - 18)), NatOf(part(n - 17, n - 9)), NatOf(part(n - 8, n))>>

\* the text before the first '-'
BeforeDash(k) == SplitN2(k)[1]

\* the hex part of the claims: the text before the first '-', an optional
\* leading 0x removed
ClaimHexPart(k) ==
    LET pre == BeforeDash(k)
    IN  IF Len(pre) >= 2 /\ pre[1] = "0" /\ pre[2] = "x"
        THEN SubSeq(pre, 3, Len(pre)) ELSE pre

CompactKey(k) == ~Contains(k, "(") /\ Contains(k, "-")

(***************************************************************************)
(* C4: for every key without '(' that contains '-', an odd-length hex part *)
(* makes parse_signature_size return the "could not parse signature bytes" *)
(* error; it neither crashes nor returns Ok.                               *)
(***************************************************************************)
C4_OddHexIsError ==
    (pc = "parsed" /\ CompactKey(key) /\ Len(ClaimHexPart(key)) % 2 = 1)
        => (parsed.tag = "Err" /\ parsed.msg = "could not parse signature bytes")

(***************************************************************************)
(* C8: for every key without '(' that contains '-', a pair of the hex part *)
(* that is not two hex digits makes parse_signature_size return an error,  *)
(* and Ok is returned only when every character of the hex part is a hex   *)
(* digit.                                                                  *)
(***************************************************************************)
C8_NonHexPairIsError ==
    (pc = "parsed" /\ CompactKey(key)) =>
        LET h == ClaimHexPart(key)
        IN  /\ (\E k \in 1..(Len(h) \div 2) :
                    ~(IsHexDigit(h[2 * k - 1]) /\ IsHexDigit(h[2 * k])))
                  => parsed.tag = "Err"
            /\ parsed.tag = "Ok" => AllHex(h)

(***************************************************************************)
(* C6: on a well-formed key parse_signature_size returns Ok with the       *)
(* reference value: a key containing '(' gives the first 4 bytes of the    *)
(* Keccak-256 digest of the whole key and size 0; a key h-s or 0xh-s, h an *)
(* even-length string of hex digits and s a decimal numeral in u64 range,  *)
(* gives the bytes of h and the size s, with and without the prefix.       *)
(***************************************************************************)
C6_WellFormedParsesToReference ==
    pc = "parsed" =>
        /\ Contains(key, "(") =>
              parsed = OkParse(SubSeq(Keccak256(key), 1, 4), <<0, 0, 0>>)
        /\ \A i \in 1..Len(key) :
              \A h \in {SubSeq(key, 1, i - 1), SubSeq(key, 3, i - 1)} :
                LET s == SubSeq(key, i + 1, Len(key))
                IN  ( /\ key[i] = "-"
                      /\ key \in {h \o <<"-">> \o s, <<"0", "x">> \o h \o <<"-">> \o s}
                      /\ AllHex(h) /\ Len(h) % 2 = 0
                      /\ AllDecimal(s) /\ InU64Range(s) )
                    => parsed = OkParse(RefBytes(h), RefValue(s))

\* the prefixed key of the unit test's selector has been parsed to 0xa9059cbb, 64
C6_Witness ==
    /\ pc = "parsed"
    /\ key = <<"0","x","a","9","0","5","9","c","b","b","-","6","4">>
    /\ parsed = OkParse(<<169, 5, 156, 187>>, <<0, 0, 64>>)

====
